---------------------------- MODULE Spec2Model ----------------------------
(***************************************************************************)
(* Model of the knewit quiz server: the QuizSession aggregate              *)
(* (src/server/quiz_types.py), the session registry, and the websocket     *)
(* handler, broadcast and heartbeat loop of src/server/app.py.             *)
(*                                                                         *)
(* The specifications share the variables:                                 *)
(*   Spec     the QuizSession operations and the host/student messages     *)
(*            that call them, on one session                               *)
(*   SpecHB   the heartbeat loop (ping_loop) against a clock               *)
(*   SpecTD   connection handlers with their suspension points: create,    *)
(*            join, disconnect and the host teardown                       *)
(*   SpecKick SpecTD's handlers and player.kick                            *)
(*   SpecMsg  the handlers' error branches: create, join with passwords,   *)
(*            quiz.load, quiz.start, answer.submit, unknown messages       *)
(*   SpecPw   session.create and session.join with passwords               *)
(*   SpecReg  create_session and delete_session called directly           *)
(***************************************************************************)
EXTENDS Integers, Sequences, FiniteSets, TLC

VARIABLES
    quiz_sessions,  \* the registry: session id -> session object, or NoObj
    heap,           \* session objects: object id -> QuizSession record
    conn,           \* per websocket: socket state and the handler's locals
    clock,          \* time.time()
    hb              \* the ping_loop task: its position and its locals

vars == <<quiz_sessions, heap, conn, clock, hb>>

-----------------------------------------------------------------------------
(* Bounds and input sets *)

\* next_question increments the pointer without limit; the model stops here
MaxIdx == 2
\* round_scores is never reset; close_question_scoring is cut off at this length
MaxRounds == 2
\* session objects ever created (create_session allocates a new one each time)
MaxObjs == 2
\* the clock stops here
MaxClock == 380

PlayerIds == {"h1", "s1"}
HostId == "h1"
SessionIds == {"X"}
WsIds == {1, 2, 3, 4}
NoObj == 0
NoWs == 0

\* quiz.state
LOBBY == "lobby"
ACTIVE == "active"
FINISHED == "finished"

\* Question: its correct_idx and len(options)
Q(c, n) == [correct_idx |-> c, options |-> n]
NoQuestion == [correct_idx |-> -9, options |-> -9]
\* session.quiz: None, or a Quiz with its list of questions
NoQuiz == [loaded |-> FALSE, questions |-> <<>>]
Quiz(qs) == [loaded |-> TRUE, questions |-> qs]
\* the quizzes a host loads: no questions, two questions
Quizzes == {Quiz(<<>>), Quiz(<<Q(0, 4), Q(1, 4)>>)}

\* answer_idx values of answer.submit: the default -1 (outside the options), 0, 1
AnswerIdx == {-1, 0, 1}
\* None for a time (last_seen, last_pong, elapsed)
NoTime == -1
\* elapsed of answer.submit: None, as sent by the clients that give no time
Elapsed == {NoTime}

-----------------------------------------------------------------------------
(* dict helpers *)

EmptyDict == [x \in {} |-> 0]
Has(d, k) == k \in DOMAIN d
\* d[k] = v
Put(d, k, v) == [x \in DOMAIN d \cup {k} |-> IF x = k THEN v ELSE d[x]]
\* d.pop(k, None)
Pop(d, k) == [x \in DOMAIN d \ {k} |-> d[x]]
\* d.get(k, default)
Get(d, k, default) == IF k \in DOMAIN d THEN d[k] ELSE default
\* d.setdefault(k, default), the dict afterwards
\* a setdefault that replaces the value of a key that is there
SetDefaultReset(d, k, default) == Put(d, k, default)

SetDefault(d, k, default) == IF k \in DOMAIN d THEN d ELSE Put(d, k, default)

-----------------------------------------------------------------------------
(* Player and QuizSession *)

Player(pid) ==
    [player_id |-> pid, score |-> 0, answered_current |-> FALSE,
     round_scores |-> <<>>, last_pong |-> NoTime, last_seen |-> NoTime,
     is_muted |-> FALSE, status |-> "active"]

ZeroCounts == [i \in 0..3 |-> 0]

QuizSession(id, host_id, password) ==
    [id |-> id, host_id |-> host_id, state |-> LOBBY,
     players |-> EmptyDict, quiz |-> NoQuiz, password |-> password,
     current_question_idx |-> -1, answer_counts |-> ZeroCounts,
     answer_log |-> EmptyDict, answer_time_log |-> EmptyDict,
     connections |-> EmptyDict]

\* the result of a method: the session afterwards and the value returned
R(s, ret) == [s |-> s, ret |-> ret]

\* an add_player that does not look for the id in the roster
add_player_replace(s, pid, ws) ==
    R([s EXCEPT !.players = Put(@, pid, Player(pid)),
                !.connections = Put(@, pid, ws)], TRUE)

add_player(s, pid, ws) ==
    IF \E p \in DOMAIN s.players : s.players[p].player_id = pid
    THEN R(s, FALSE)
    ELSE R([s EXCEPT !.players = Put(@, pid, Player(pid)),
                     !.connections = Put(@, pid, ws)], TRUE)

\* a remove_player that leaves the connection map alone
remove_player_roster_only(s, pid) ==
    [s EXCEPT !.players = Pop(@, pid)]

remove_player(s, pid) ==
    [s EXCEPT !.players = Pop(@, pid), !.connections = Pop(@, pid)]

load_quiz(s, quiz) ==
    [s EXCEPT !.quiz = quiz,
              !.current_question_idx = -1,
              !.answer_counts = ZeroCounts,
              !.answer_log = EmptyDict,
              !.state = LOBBY,
              !.players = [p \in DOMAIN @ |->
                              [@[p] EXCEPT !.score = 0, !.answered_current = FALSE]]]

start_quiz(s) ==
    IF ~s.quiz.loaded \/ Len(s.quiz.questions) = 0
    THEN R(s, FALSE)
    ELSE R([s EXCEPT !.state = ACTIVE], TRUE)

\* a reset that leaves the players' answered_current flags
_reset_keep_flags(s) ==
    [s EXCEPT !.answer_counts = ZeroCounts,
              !.answer_log = IF s.current_question_idx >= 0
                             THEN Put(@, s.current_question_idx, EmptyDict)
                             ELSE @]

_reset_current_question_state(s) ==
    [s EXCEPT !.answer_counts = ZeroCounts,
              !.answer_log = IF s.current_question_idx >= 0
                             THEN Put(@, s.current_question_idx, EmptyDict)
                             ELSE @,
              !.players = [p \in DOMAIN @ |-> [@[p] EXCEPT !.answered_current = FALSE]]]

\* ret: the question now current, NoQuestion for None
next_question(s) ==
    IF ~s.quiz.loaded
    THEN R(s, NoQuestion)
    ELSE LET s1 == [s EXCEPT !.current_question_idx = @ + 1]
         IN  IF s1.current_question_idx >= Len(s1.quiz.questions)
             THEN R([s1 EXCEPT !.state = FINISHED], NoQuestion)
             ELSE R(_reset_current_question_state(s1),
                    s1.quiz.questions[s1.current_question_idx + 1])

get_current_question(s) ==
    IF ~s.quiz.loaded \/ s.current_question_idx < 0
    THEN NoQuestion
    ELSE IF s.current_question_idx >= Len(s.quiz.questions)
         THEN NoQuestion
         ELSE s.quiz.questions[s.current_question_idx + 1]

\* close_question_scoring crediting every player that has an entry, right or wrong
close_question_scoring_any_entry(s) ==
    LET q == get_current_question(s)
        bucket == Get(s.answer_log, s.current_question_idx, EmptyDict)
        points(pid) == IF Has(bucket, pid) THEN 1 ELSE 0
    IN  IF q = NoQuestion
        THEN s
        ELSE [s EXCEPT !.players = [pid \in DOMAIN @ |->
                 [@[pid] EXCEPT !.round_scores = Append(@, points(pid))]]]

close_question_scoring(s) ==
    LET q == get_current_question(s)
        bucket == Get(s.answer_log, s.current_question_idx, EmptyDict)
        points(pid) == IF Has(bucket, pid) /\ bucket[pid] = q.correct_idx THEN 1 ELSE 0
    IN  IF q = NoQuestion
        THEN s
        ELSE [s EXCEPT !.players = [pid \in DOMAIN @ |->
                 [@[pid] EXCEPT !.round_scores = Append(@, points(pid))]]]

\* the test "player.answered_current or player_id in bucket", dropped to the flag
already_answered_flag_only(s, player_id, bucket) ==
    s.players[player_id].answered_current

already_answered(s, player_id, bucket) ==
    s.players[player_id].answered_current \/ Has(bucket, player_id)

\* ret: TRUE when the answer was accepted and correct
record_answer(s, player_id, answer_idx, elapsed) ==
    LET question == get_current_question(s)
        q_idx == s.current_question_idx
        s1 == [s EXCEPT !.answer_log = SetDefault(@, q_idx, EmptyDict),
                        !.answer_time_log = SetDefault(@, q_idx, EmptyDict)]
        bucket == s1.answer_log[q_idx]
        s2 == [s1 EXCEPT
                 !.answer_log[q_idx] = Put(@, player_id, answer_idx),
                 !.answer_time_log[q_idx] =
                     IF elapsed # NoTime THEN Put(@, player_id, elapsed) ELSE @,
                 !.answer_counts =
                     IF answer_idx \in DOMAIN @
                     THEN [@ EXCEPT ![answer_idx] = @ + 1] ELSE @,
                 !.players[player_id].answered_current = TRUE]
        correct == 0 <= answer_idx /\ answer_idx < question.options
                   /\ answer_idx = question.correct_idx
    IN  IF ~Has(s.players, player_id) THEN R(s, FALSE)
        ELSE IF question = NoQuestion THEN R(s, FALSE)
        ELSE IF already_answered(s, player_id, bucket)
             THEN R(s1, FALSE)
        ELSE IF correct
             THEN R([s2 EXCEPT !.players[player_id].score = @ + 1], TRUE)
             ELSE R(s2, FALSE)

\* question_idx = None is passed as NoTime (-1 is never a caller's index)
get_answer_counts(s, question_idx) ==
    LET qi == IF question_idx = NoTime THEN s.current_question_idx ELSE question_idx
        bucket == Get(s.answer_log, qi, EmptyDict)
    IN  IF qi < 0
        THEN <<0, 0, 0, 0>>
        ELSE [i \in 1..4 |->
                Cardinality({p \in DOMAIN bucket : bucket[p] = i - 1})]

-----------------------------------------------------------------------------
(* Connections: the websocket and the locals of its ws_endpoint task *)

\* the player_id query parameter of each websocket; 2 and 4 give the same id
WsPlayer == (1 :> "h1") @@ (2 :> "s1") @@ (3 :> "s2") @@ (4 :> "s1")

\* conn = {"session": None, "is_host": False, "attempts": 3}
\* sock: "none" before the client connects, then "open", then "closed";
\* pc: where the task is suspended; todo, dead: the locals of its broadcast;
\* kid: the player_id of the player.kick being handled;
\* got, reply, heard record what the client was sent and when it was last heard
Conn0 == [session |-> NoObj, is_host |-> FALSE, attempts |-> 3,
          sock |-> "none", pc |-> "none", todo |-> {}, dead |-> {}, kid |-> "",
          got |-> {}, reply |-> "none", heard |-> NoTime]

\* Heartbeat config
PING_INTERVAL == 20
PLAYER_TIMEOUT == 60
HARD_TIMEOUT == 300

\* ping_loop: pc is where it is suspended; wake ends its sleep; now, the
\* session list, the session at hand, the fan-out's items still to send and
\* its dead list, dead_players still to drop and the websocket being closed.
\* scans records whether a scan has been completed
HB0 == [pc |-> "sleep", wake |-> 0, now |-> 0, sessq |-> <<>>, cur |-> NoObj,
        todo |-> {}, dead |-> {}, deadq |-> <<>>, ws |-> NoWs, scans |-> 0]

-----------------------------------------------------------------------------
(* Spec: the QuizSession operations on the session of host h1 *)

\* session "X" after h1's session.create: the host is its first player
Init ==
    /\ quiz_sessions = [sid \in SessionIds |-> 1]
    /\ heap = (1 :> add_player(QuizSession("X", HostId, ""), HostId, 1).s)
    /\ conn = [w \in WsIds |-> IF w = 1
                  THEN [Conn0 EXCEPT !.session = 1, !.is_host = TRUE,
                                     !.sock = "open", !.pc = "recv"]
                  ELSE Conn0]
    /\ clock = 0
    /\ hb = HB0

Others == <<quiz_sessions, conn, clock, hb>>

\* the students, and the websocket each joins on
Students == PlayerIds \ {HostId}
FirstWs(pid) == CHOOSE w \in WsIds : WsPlayer[w] = pid /\ \A x \in WsIds : WsPlayer[x] = pid => w <= x

\* session.add_player(player_id, ws)
AddPlayer(o) ==
    \E pid \in Students : \E w \in {FirstWs(pid)} :
        /\ heap' = [heap EXCEPT ![o] = add_player(@, pid, w).s]
        /\ UNCHANGED Others

\* session.remove_player(player_id)
RemovePlayer(o) ==
    \E pid \in Students :
        /\ heap' = [heap EXCEPT ![o] = remove_player(@, pid)]
        /\ UNCHANGED Others

\* quiz.load: session.load_quiz(quiz)
LoadQuiz(o) ==
    \E quiz \in Quizzes :
        /\ heap' = [heap EXCEPT ![o] = load_quiz(@, quiz)]
        /\ UNCHANGED Others

\* session.start_quiz()
StartQuiz(o) ==
    /\ heap' = [heap EXCEPT ![o] = start_quiz(@).s]
    /\ UNCHANGED Others

\* question.next: session.next_question()
NextQuestion(o) ==
    /\ heap[o].current_question_idx < MaxIdx
    /\ heap' = [heap EXCEPT ![o] = next_question(@).s]
    /\ UNCHANGED Others

\* question.end: session.close_question_scoring() (the handler's own test of
\* get_current_question is the method's first test)
CloseQuestionScoring(o) ==
    /\ \A p \in DOMAIN heap[o].players : Len(heap[o].players[p].round_scores) < MaxRounds
    /\ heap' = [heap EXCEPT ![o] = close_question_scoring(@)]
    /\ UNCHANGED Others

\* answer.submit: session.record_answer(player_id, answer_idx, elapsed)
RecordAnswer(o) ==
    \E pid \in PlayerIds, a \in AnswerIdx, e \in Elapsed :
        /\ heap' = [heap EXCEPT ![o] = record_answer(@, pid, a, e).s]
        /\ UNCHANGED Others

\* quiz.start: start_quiz() and, when it succeeds, next_question() at once
on_quiz_start(s) ==
    IF start_quiz(s).ret THEN next_question(start_quiz(s).s).s ELSE s

OnQuizStart(o) ==
    /\ heap[o].current_question_idx < MaxIdx
    /\ heap' = [heap EXCEPT ![o] = on_quiz_start(@)]
    /\ UNCHANGED Others

\* quiz.stop that also rewinds the pointer
on_quiz_stop_rewind(s) == [s EXCEPT !.state = FINISHED, !.current_question_idx = -1]

\* quiz.stop: session.state = QuizState.FINISHED
on_quiz_stop(s) == [s EXCEPT !.state = FINISHED]

OnQuizStop(o) ==
    /\ heap' = [heap EXCEPT ![o] = on_quiz_stop(@)]
    /\ UNCHANGED Others

Next ==
    \/ \E o \in DOMAIN heap : AddPlayer(o)
    \/ \E o \in DOMAIN heap : RemovePlayer(o)
    \/ \E o \in DOMAIN heap : LoadQuiz(o)
    \/ \E o \in DOMAIN heap : StartQuiz(o)
    \/ \E o \in DOMAIN heap : NextQuestion(o)
    \/ \E o \in DOMAIN heap : CloseQuestionScoring(o)
    \/ \E o \in DOMAIN heap : RecordAnswer(o)
    \/ \E o \in DOMAIN heap : OnQuizStart(o)
    \/ \E o \in DOMAIN heap : OnQuizStop(o)

Spec == Init /\ [][Next]_vars

-----------------------------------------------------------------------------
(* SpecHB: ping_loop and the messages that refresh last_seen *)

\* the sequences listing the elements of a finite set, each once
Orders(S) == {q \in [1..Cardinality(S) -> S] : \A x \in S : \E i \in DOMAIN q : q[i] = x}

\* list(d.items()) for a connections dict
Items(d) == {<<k, d[k]>> : k \in DOMAIN d}

\* last = player.last_seen or player.last_pong (None and 0 are falsy)
Truthy(x) == x # NoTime /\ x # 0
last_heard(player) ==
    IF Truthy(player.last_seen) THEN player.last_seen
    ELSE IF Truthy(player.last_pong) THEN player.last_pong ELSE NoTime

\* silence > HARD_TIMEOUT, with >= in place of >
is_dead_at_limit(silence) == silence >= HARD_TIMEOUT
is_dead(silence) == silence > HARD_TIMEOUT

\* elif silence > PLAYER_TIMEOUT and player.status == "active"
is_stale(silence, player) == silence > PLAYER_TIMEOUT /\ player.status = "active"

\* the scan of one session at time now: who is dead, who is stale
dead_players(s, now) ==
    {pid \in DOMAIN s.players :
        /\ last_heard(s.players[pid]) # NoTime
        /\ is_dead(now - last_heard(s.players[pid]))}
stale_players(s, now) ==
    {pid \in DOMAIN s.players :
        /\ last_heard(s.players[pid]) # NoTime
        /\ ~is_dead(now - last_heard(s.players[pid]))
        /\ is_stale(now - last_heard(s.players[pid]), s.players[pid])}
mark_stale(s, now) ==
    [s EXCEPT !.players = [pid \in DOMAIN @ |->
        IF pid \in stale_players(s, now) THEN [@[pid] EXCEPT !.status = "stale"] ELSE @[pid]]]

\* ping_loop from a point where it is not suspended to its next await (or to
\* its sleep). st = [hb, heap]; clk is the clock; ord orders dead_players.
RECURSIVE hb_run(_, _, _)
hb_run(st, clk, ord) ==
    LET h == st.hb
        H == st.heap
    IN
    CASE h.pc = "session" ->
           IF h.sessq = <<>>
           THEN [st EXCEPT !.hb.pc = "sleep", !.hb.wake = clk + PING_INTERVAL,
                           !.hb.cur = NoObj, !.hb.scans = IF @ < 1 THEN @ + 1 ELSE @]
           ELSE LET o == Head(h.sessq)
                    h1 == [h EXCEPT !.cur = o, !.sessq = Tail(@),
                                    !.todo = Items(H[o].connections)]
                IN  IF h1.todo = {}
                    THEN hb_run([st EXCEPT !.hb = [h1 EXCEPT !.pc = "scan"]], clk, ord)
                    ELSE [st EXCEPT !.hb = [h1 EXCEPT !.pc = "ping"]]
      [] h.pc = "scan" ->
           LET s == H[h.cur]
               dead == dead_players(s, h.now)
               dq == SelectSeq(ord, LAMBDA x : x \in dead)
               st1 == [st EXCEPT !.heap[h.cur] = mark_stale(s, h.now),
                                 !.hb.deadq = dq]
           IN  IF dq = <<>>
               THEN hb_run([st1 EXCEPT !.hb.pc = "session"], clk, ord)
               ELSE hb_run([st1 EXCEPT !.hb.pc = "evict"], clk, ord)
      [] h.pc = "evict" ->
           IF h.deadq = <<>>
           THEN hb_run([st EXCEPT !.hb.pc = "session"], clk, ord)
           ELSE LET ws == Get(H[h.cur].connections, Head(h.deadq), NoWs)
                IN  IF ws # NoWs
                    THEN [st EXCEPT !.hb.pc = "closing", !.hb.ws = ws]
                    ELSE hb_run([st EXCEPT !.hb.pc = "remove"], clk, ord)
      [] h.pc = "remove" ->
           LET s1 == remove_player(H[h.cur], Head(h.deadq))
               st1 == [st EXCEPT !.heap[h.cur] = s1, !.hb.ws = NoWs,
                                 !.hb.todo = Items(s1.connections), !.hb.dead = {}]
           IN  IF st1.hb.todo = {}
               THEN hb_run([st1 EXCEPT !.hb.pc = "evict", !.hb.deadq = Tail(@)], clk, ord)
               ELSE [st1 EXCEPT !.hb.pc = "bcast"]
      [] OTHER -> st

HBStep(st) ==
    /\ hb' = st.hb
    /\ heap' = st.heap

\* the sleep ends: now = time.time(), the sessions are listed, the first ping goes out
HBWake ==
    /\ hb.pc = "sleep"
    /\ clock >= hb.wake
    /\ \E sq \in Orders({quiz_sessions[sid] : sid \in SessionIds} \ {NoObj}),
          ord \in Orders(PlayerIds) :
          HBStep(hb_run([hb |-> [hb EXCEPT !.pc = "session", !.now = clock, !.sessq = sq],
                         heap |-> heap], clock, ord))
    /\ UNCHANGED <<quiz_sessions, conn, clock>>

\* await ws.send_text(ping) returns (an exception is swallowed: continue)
HBPingSent ==
    /\ hb.pc = "ping"
    /\ \E item \in hb.todo, ord \in Orders(PlayerIds) :
          LET h1 == [hb EXCEPT !.todo = @ \ {item}]
          IN  HBStep(IF h1.todo = {}
                     THEN hb_run([hb |-> [h1 EXCEPT !.pc = "scan"], heap |-> heap], clock, ord)
                     ELSE [hb |-> h1, heap |-> heap])
    /\ UNCHANGED <<quiz_sessions, conn, clock>>

\* await ws.close() of a dead player returns; session.remove_player(pid) and
\* the lobby broadcast start
HBCloseDone ==
    /\ hb.pc = "closing"
    /\ conn' = [conn EXCEPT ![hb.ws].sock = "closed"]
    /\ \E ord \in Orders(PlayerIds) :
          HBStep(hb_run([hb |-> [hb EXCEPT !.pc = "remove"], heap |-> heap], clock, ord))
    /\ UNCHANGED <<quiz_sessions, clock>>

\* what a client is sent by broadcast_lobby(session, removed_player=pid)
LobbyRemoved(pid) == <<"lobby.update", "removed", pid>>

\* broadcast: connections.pop(pid) for the pids whose send raised
prune(s, dead) == [s EXCEPT !.connections = [k \in DOMAIN @ \ dead |-> @[k]]]

\* one send of broadcast_lobby(removed) returns; after the last one the dead
\* connections are pruned and the next dead player is taken
HBBcastSent ==
    /\ hb.pc = "bcast"
    /\ \E item \in hb.todo, ord \in Orders(PlayerIds) :
          LET ok == conn[item[2]].sock = "open"
              h1 == [hb EXCEPT !.todo = @ \ {item},
                               !.dead = IF ok THEN @ ELSE @ \cup {item[1]}]
          IN  /\ conn' = IF ok
                         THEN [conn EXCEPT ![item[2]].got = @ \cup {LobbyRemoved(Head(hb.deadq))}]
                         ELSE conn
              /\ HBStep(IF h1.todo = {}
                        THEN hb_run([hb |-> [h1 EXCEPT !.pc = "evict", !.deadq = Tail(@),
                                                       !.dead = {}],
                                     heap |-> [heap EXCEPT ![hb.cur] = prune(@, h1.dead)]],
                                    clock, ord)
                        ELSE [hb |-> h1, heap |-> heap])
    /\ UNCHANGED <<quiz_sessions, clock>>

\* time passes
TickSteps == {PLAYER_TIMEOUT, HARD_TIMEOUT - PLAYER_TIMEOUT}
Tick ==
    /\ \E d \in TickSteps :
          /\ clock + d <= MaxClock
          /\ clock' = clock + d
    /\ UNCHANGED <<quiz_sessions, heap, conn, hb>>

\* the refresh of last_seen left to the pong branch alone
on_message_pong_only(s, player_id, msg_type, now) ==
    IF msg_type = "pong" /\ Has(s.players, player_id)
    THEN [s EXCEPT !.players[player_id].last_pong = now,
                   !.players[player_id].last_seen = now]
    ELSE s

\* the head of the message loop: last_seen for any inbound message, and pong
on_message(s, player_id, msg_type, now) ==
    LET s1 == IF Has(s.players, player_id)
              THEN [s EXCEPT !.players[player_id].last_seen = now] ELSE s
    IN  IF msg_type = "pong" /\ Has(s1.players, player_id)
        THEN [s1 EXCEPT !.players[player_id].last_pong = now,
                        !.players[player_id].last_seen = now]
        ELSE s1

\* a pong, or a message of a type the server does not know (it is answered
\* with an error), arrives on a connection that has a session; the host's
\* client only answers the pings
HBMsgTypes(w) == IF WsPlayer[w] = HostId THEN {"pong"} ELSE {"pong", "unknown"}
Recv(w) ==
    /\ conn[w].sock = "open"
    /\ conn[w].pc = "recv"
    /\ conn[w].session # NoObj
    /\ \E msg_type \in HBMsgTypes(w) :
          /\ heap' = [heap EXCEPT ![conn[w].session] =
                          on_message(@, WsPlayer[w], msg_type, clock)]
          /\ conn' = [conn EXCEPT ![w].heard = clock]
    /\ UNCHANGED <<quiz_sessions, clock, hb>>

\* session "X" with host h1 and student s1 joined; neither has sent a message
\* since the one that attached it, so last_seen is None for both
InitHB ==
    /\ quiz_sessions = [sid \in SessionIds |-> 1]
    /\ heap = (1 :> add_player(add_player(QuizSession("X", HostId, ""), HostId, 1).s,
                               "s1", 2).s)
    /\ clock = PING_INTERVAL
    /\ conn = [w \in WsIds |->
                 IF w = 1 THEN [Conn0 EXCEPT !.session = 1, !.is_host = TRUE, !.sock = "open",
                                             !.pc = "recv", !.heard = PING_INTERVAL]
                 ELSE IF w = 2 THEN [Conn0 EXCEPT !.session = 1, !.sock = "open",
                                                  !.pc = "recv", !.heard = PING_INTERVAL]
                 ELSE Conn0]
    /\ hb = [HB0 EXCEPT !.wake = PING_INTERVAL]

NextHB ==
    \/ HBWake
    \/ HBPingSent
    \/ HBCloseDone
    \/ HBBcastSent
    \/ Tick
    \/ \E w \in WsIds : Recv(w)

SpecHB == InitHB /\ [][NextHB]_vars

-----------------------------------------------------------------------------
(* SpecTD: ws_endpoint with its suspension points: session.create,
   session.join, disconnects and the teardown of the finally block *)

\* the password a client sends with session.create and session.join
Passwords == {""}

get_session(reg, session_id) == Get(reg, session_id, NoObj)

\* a delete_session that leaves the registry as it is
delete_session_keep(reg, session_id) == reg

delete_session(reg, session_id) == [reg EXCEPT ![session_id] = NoObj]

\* what the clients are sent by the broadcasts of ws_endpoint
SessionClosed == <<"session.closed", "Host disconnected", "">>
LobbyAdded(pid) == <<"lobby.update", "added", pid>>
QuizLoaded == <<"quiz.loaded", "", "">>
QuestionNext == <<"question.next", "", "">>
QuizFinished == <<"quiz.finished", "", "">>

\* got keeps the lobby and session messages a client has been sent
Logged == {SessionClosed} \cup {LobbyAdded(pid) : pid \in {WsPlayer[w] : w \in WsIds}}
                          \cup {LobbyRemoved(pid) : pid \in {WsPlayer[w] : w \in WsIds}}

\* the payload of the broadcast the task of w is suspended in
BcastMsg(w) ==
    CASE conn[w].pc = "bcast.added" -> LobbyAdded(WsPlayer[w])
      [] conn[w].pc = "bcast.removed" -> LobbyRemoved(WsPlayer[w])
      [] conn[w].pc = "bcast.kick" -> LobbyRemoved(conn[w].kid)
      [] conn[w].pc = "bcast.loaded" -> QuizLoaded
      [] conn[w].pc = "bcast.question" ->
             IF get_current_question(heap[conn[w].session]) = NoQuestion
             THEN QuizFinished ELSE QuestionNext
      [] OTHER -> SessionClosed

\* st = [heap, conn, reg]: the state a handler of w runs on between two awaits

\* delete_session(session.id): the finally block of a host is over
finish_teardown(w, st) ==
    [st EXCEPT !.reg = delete_session(@, st.heap[st.conn[w].session].id),
               !.conn[w].pc = "done", !.conn[w].todo = {}]

\* for p_ws in list(session.connections.values()): await p_ws.close()
start_closing(w, st) ==
    LET todo == Items(st.heap[st.conn[w].session].connections)
    IN  IF todo = {} THEN finish_teardown(w, st)
        ELSE [st EXCEPT !.conn[w].pc = "closing", !.conn[w].todo = todo]

\* broadcast has returned to the handler of w
after_broadcast(w, st, kind) ==
    CASE kind = "bcast.added" -> [st EXCEPT !.conn[w].pc = "recv"]
      [] kind = "bcast.kick" -> [st EXCEPT !.conn[w].pc = "recv", !.conn[w].kid = ""]
      [] kind \in {"bcast.loaded", "bcast.question"} -> [st EXCEPT !.conn[w].pc = "recv"]
      [] kind = "bcast.removed" -> [st EXCEPT !.conn[w].pc = "done"]
      [] OTHER -> start_closing(w, st)

\* broadcast: list(session.connections.items()) is taken, the first send awaits
broadcast(w, st, kind) ==
    LET todo == Items(st.heap[st.conn[w].session].connections)
    IN  IF todo = {} THEN after_broadcast(w, st, kind)
        ELSE [st EXCEPT !.conn[w].pc = kind, !.conn[w].todo = todo,
                        !.conn[w].dead = {}]

\* the finally block of ws_endpoint up to its first await
finally(w, st) ==
    LET o == st.conn[w].session
    IN  IF o = NoObj THEN [st EXCEPT !.conn[w].pc = "done"]
        ELSE LET st1 == [st EXCEPT !.heap[o].connections = Pop(@, WsPlayer[w])]
             IN  IF st.conn[w].is_host
                 THEN broadcast(w, st1, "bcast.closed")
                 ELSE broadcast(w, [st1 EXCEPT !.heap[o] = remove_player(@, WsPlayer[w])],
                                "bcast.removed")

Now == [heap |-> heap, conn |-> conn, reg |-> quiz_sessions]

TDStep(st) ==
    /\ heap' = st.heap
    /\ conn' = st.conn
    /\ quiz_sessions' = st.reg
    /\ UNCHANGED <<clock, hb>>

\* create_session: a new QuizSession object is registered under session_id
NewObj(hp) == Cardinality(DOMAIN hp) + 1
create_session(st, host_id, session_id, password) ==
    [st EXCEPT !.heap = @ @@ (NewObj(st.heap) :> QuizSession(session_id, host_id, password)),
               !.reg[session_id] = NewObj(st.heap)]

\* the head of the message loop for a message that is not a pong
touch(w, st, msg_type) ==
    IF st.conn[w].session = NoObj THEN st
    ELSE [st EXCEPT !.heap[st.conn[w].session] = on_message(@, WsPlayer[w], msg_type, clock)]

\* the session.create branch up to its first await
create(w, st, sid, pw) ==
    LET st1 == [touch(w, st, "session.create") EXCEPT !.conn[w].is_host = TRUE]
    IN  IF get_session(st1.reg, sid) # NoObj
        THEN [st1 EXCEPT !.conn[w].reply = "Session already exists"]
        ELSE LET st2 == create_session(st1, WsPlayer[w], sid, pw)
                 o == st2.reg[sid]
             IN  [st2 EXCEPT !.heap[o] = add_player(@, WsPlayer[w], w).s,
                             !.conn[w].session = o,
                             !.conn[w].pc = "attached",
                             !.conn[w].reply = "session.created"]

\* session.create arrives on w
Create(w) ==
    /\ conn[w].sock = "open"
    /\ conn[w].pc = "recv"
    /\ \E pw \in Passwords, sid \in SessionIds :
          /\ get_session(quiz_sessions, sid) = NoObj => NewObj(heap) <= MaxObjs
          /\ TDStep(create(w, Now, sid, pw))

\* a session.join branch that never compares the password
join_any_password(w, st, sid, pw) ==
    LET st0 == touch(w, st, "session.join")
        o == get_session(st0.reg, sid)
    IN  IF o = NoObj
        THEN [st0 EXCEPT !.conn[w].reply = "Session not found"]
        ELSE IF st0.heap[o].password # "" /\ st0.conn[w].attempts <= 0
        THEN finally(w, [st0 EXCEPT !.conn[w].reply = "reject.pw",
                                    !.conn[w].sock = "closed"])
        ELSE LET r == add_player(st0.heap[o], WsPlayer[w], w)
             IN  IF ~r.ret
                 THEN [st0 EXCEPT !.conn[w].reply = "Name already taken"]
                 ELSE [st0 EXCEPT !.heap[o] = r.s,
                                  !.conn[w].session = o,
                                  !.conn[w].pc = "attached",
                                  !.conn[w].reply = "session.joined"]

\* the session.join branch up to its first await
join(w, st, sid, pw) ==
    LET st0 == touch(w, st, "session.join")
        o == get_session(st0.reg, sid)
    IN  IF o = NoObj
        THEN [st0 EXCEPT !.conn[w].reply = "Session not found"]
        ELSE IF st0.heap[o].password # "" /\ st0.conn[w].attempts <= 0
        THEN finally(w, [st0 EXCEPT !.conn[w].reply = "reject.pw",
                                    !.conn[w].sock = "closed"])
        ELSE IF st0.heap[o].password # "" /\ pw # st0.heap[o].password
        THEN [st0 EXCEPT !.conn[w].attempts = @ - 1,
                         !.conn[w].reply = "reject.pw"]
        ELSE LET r == add_player(st0.heap[o], WsPlayer[w], w)
             IN  IF ~r.ret
                 THEN [st0 EXCEPT !.conn[w].reply = "Name already taken"]
                 ELSE [st0 EXCEPT !.heap[o] = r.s,
                                  !.conn[w].session = o,
                                  !.conn[w].pc = "attached",
                                  !.conn[w].reply = "session.joined"]

\* session.join arrives on w
Join(w) ==
    /\ conn[w].sock = "open"
    /\ conn[w].pc = "recv"
    /\ \E pw \in Passwords, sid \in SessionIds :
          TDStep(join(w, Now, sid, pw))

\* await ws.send_text(session.created / session.joined) returns and
\* broadcast_lobby(added) starts; on a closed socket the send raises
AttachedSent(w) ==
    /\ conn[w].pc = "attached"
    /\ TDStep(IF conn[w].sock = "open"
              THEN broadcast(w, Now, "bcast.added")
              ELSE finally(w, Now))

\* a fan-out loop that an exception of a send would leave
after_send_abort(todo, item, ok) == IF ok THEN todo \ {item} ELSE {}

\* the items still to send after the send of item returned (ok) or raised:
\* try/except inside the loop, the loop goes on
after_send(todo, item, ok) == todo \ {item}

\* one send of a broadcast returns or raises; after the last one the dead
\* connections are popped and the handler goes on
BcastSent(w) ==
    /\ conn[w].pc \in {"bcast.added", "bcast.removed", "bcast.closed", "bcast.kick",
                       "bcast.loaded", "bcast.question"}
    /\ \E item \in conn[w].todo :
          LET ok == conn[item[2]].sock = "open"
              c1 == [conn EXCEPT ![w].todo = after_send(@, item, ok),
                                 ![w].dead = IF ok THEN @ ELSE @ \cup {item[1]},
                                 ![item[2]].got = IF ok /\ BcastMsg(w) \in Logged
                                                  THEN @ \cup {BcastMsg(w)} ELSE @]
              o == conn[w].session
          IN  TDStep(IF c1[w].todo = {}
                     THEN after_broadcast(w, [heap |-> [heap EXCEPT ![o] = prune(@, c1[w].dead)],
                                              conn |-> [c1 EXCEPT ![w].dead = {}],
                                              reg |-> quiz_sessions],
                                          conn[w].pc)
                     ELSE [Now EXCEPT !.conn = c1])

\* await p_ws.close() returns (or raises: pass); after the last one the
\* session is deleted
CloseDone(w) ==
    /\ conn[w].pc = "closing"
    /\ \E item \in conn[w].todo :
          LET c1 == [conn EXCEPT ![w].todo = @ \ {item}, ![item[2]].sock = "closed"]
          IN  TDStep(IF c1[w].todo = {}
                     THEN finish_teardown(w, [Now EXCEPT !.conn = c1])
                     ELSE [Now EXCEPT !.conn = c1])

\* the client of w goes away
ClientClose(w) ==
    /\ conn[w].sock = "open"
    /\ conn' = [conn EXCEPT ![w].sock = "closed"]
    /\ UNCHANGED <<quiz_sessions, heap, clock, hb>>

\* receive_text raises on the closed socket: the finally block runs
Disconnected(w) ==
    /\ conn[w].pc = "recv"
    /\ conn[w].sock = "closed"
    /\ TDStep(finally(w, Now))

\* session "X" of host h1 with student s1, its quiz started; s2 is connected
\* and has not joined
InitTD ==
    /\ quiz_sessions = [sid \in SessionIds |-> 1]
    /\ heap = (1 :> on_quiz_start(load_quiz(
                       add_player(add_player(QuizSession("X", HostId, ""), HostId, 1).s,
                                  "s1", 2).s,
                       Quiz(<<Q(0, 4), Q(1, 4)>>))))
    /\ conn = [w \in WsIds |->
                 IF w = 1 THEN [Conn0 EXCEPT !.session = 1, !.is_host = TRUE,
                                             !.sock = "open", !.pc = "recv"]
                 ELSE IF w = 2 THEN [Conn0 EXCEPT !.session = 1, !.sock = "open", !.pc = "recv"]
                 ELSE IF w = 3 THEN [Conn0 EXCEPT !.sock = "open", !.pc = "recv"]
                 ELSE Conn0]
    /\ clock = 0
    /\ hb = HB0

NextTD ==
    \/ \E w \in WsIds : Create(w)
    \/ \E w \in WsIds : Join(w)
    \/ \E w \in WsIds : AttachedSent(w)
    \/ \E w \in WsIds : BcastSent(w)
    \/ \E w \in WsIds : CloseDone(w)
    \/ \E w \in WsIds : ClientClose(w)
    \/ \E w \in WsIds : Disconnected(w)

SpecTD == InitTD /\ [][NextTD]_vars

-----------------------------------------------------------------------------
(* SpecKick: SpecTD's handlers and player.kick, with a second connection
   that gives the id of a student *)

\* what the kicked client is sent
Kicked == <<"kicked", "", "">>

\* the player_id a host sends with player.kick
KickIds == PlayerIds

\* session.remove_player(kid); broadcast_lobby(session, removed_player=kid)
kick_remove(w, st) ==
    broadcast(w, [st EXCEPT !.heap[st.conn[w].session] = remove_player(@, st.conn[w].kid)],
              "bcast.kick")

\* player.kick arrives on the connection of a host
Kick(w) ==
    /\ conn[w].sock = "open"
    /\ conn[w].pc = "recv"
    /\ conn[w].session # NoObj
    /\ conn[w].is_host
    /\ \E kid \in KickIds :
          LET st0 == touch(w, Now, "player.kick")
              cs == st0.heap[conn[w].session].connections
          IN  IF Has(cs, kid)
              THEN TDStep([st0 EXCEPT !.conn[w].pc = "kick.send", !.conn[w].kid = kid,
                                      !.conn[w].todo = {<<kid, cs[kid]>>}])
              ELSE TDStep(st0)

\* await session.connections[kid].send_text(kicked) returns or raises; when
\* it returned, session.connections[kid] is looked up again for the close
KickSent(w) ==
    /\ conn[w].pc = "kick.send"
    /\ \E item \in conn[w].todo :
          LET ok == conn[item[2]].sock = "open"
              cs == heap[conn[w].session].connections
              st1 == [Now EXCEPT !.conn[w].todo = {},
                                 !.conn[item[2]].got = IF ok THEN @ \cup {Kicked} ELSE @]
          IN  IF ok /\ Has(cs, item[1])
              THEN TDStep([st1 EXCEPT !.conn[w].pc = "kick.close",
                                      !.conn[w].todo = {<<item[1], cs[item[1]]>>}])
              ELSE TDStep(kick_remove(w, st1))

\* await session.connections[kid].close() returns (or raises: pass)
KickClosed(w) ==
    /\ conn[w].pc = "kick.close"
    /\ \E item \in conn[w].todo :
          TDStep(kick_remove(w, [Now EXCEPT !.conn[w].todo = {},
                                            !.conn[item[2]].sock = "closed"]))

\* session "X" of host h1 with student s1 in the lobby; a second connection
\* that gives the id s1 is open and has not joined
InitKick ==
    /\ quiz_sessions = [sid \in SessionIds |-> 1]
    /\ heap = (1 :> add_player(add_player(QuizSession("X", HostId, ""), HostId, 1).s,
                               "s1", 2).s)
    /\ conn = [w \in WsIds |->
                 IF w = 1 THEN [Conn0 EXCEPT !.session = 1, !.is_host = TRUE,
                                             !.sock = "open", !.pc = "recv"]
                 ELSE IF w = 2 THEN [Conn0 EXCEPT !.session = 1, !.sock = "open", !.pc = "recv"]
                 ELSE IF w = 4 THEN [Conn0 EXCEPT !.sock = "open", !.pc = "recv"]
                 ELSE Conn0]
    /\ clock = 0
    /\ hb = HB0

NextKick ==
    \/ \E w \in WsIds : Kick(w)
    \/ \E w \in WsIds : KickSent(w)
    \/ \E w \in WsIds : KickClosed(w)
    \/ \E w \in WsIds : Join(w)
    \/ \E w \in WsIds : AttachedSent(w)
    \/ \E w \in WsIds : BcastSent(w)
    \/ \E w \in WsIds : CloseDone(w)
    \/ \E w \in WsIds : ClientClose(w)
    \/ \E w \in WsIds : Disconnected(w)

SpecKick == InitKick /\ [][NextKick]_vars

-----------------------------------------------------------------------------
(* SpecMsg: ws_endpoint on connections that start unattached, with
   password-protected sessions and the branches that answer a message with
   an error: session.create, session.join, quiz.load, quiz.start,
   answer.submit and a message of unknown type *)

\* the password session.create is sent with, and those session.join tries
\* ("" stands for a message without password)
NewPasswords == {"pw"}
TriedPasswords == {"", "bad", "pw"}

\* the quiz data of a quiz.load message: none, or a quiz of two questions
QuizData == {NoQuiz, Quiz(<<Q(0, 4), Q(1, 4)>>)}

\* the answer_idx of the answer.submit messages: right for the first
\* question, wrong for the second
SentAnswers == {0}

\* "if not conn['session']": a command of a session before create or join
no_session(w, st) == [st EXCEPT !.conn[w].reply = "No active session"]

\* the fallback at the end of the loop, reached by the host commands of a
\* connection that is no host as well
fallback(w, st) == [st EXCEPT !.conn[w].reply = "Unknown message"]

\* the quiz.load branch up to its first await
quiz_load(w, st, quiz) ==
    LET st0 == touch(w, st, "quiz.load")
        o == st0.conn[w].session
    IN  IF o = NoObj THEN no_session(w, st0)
        ELSE IF ~st0.conn[w].is_host THEN fallback(w, st0)
        ELSE IF quiz = NoQuiz
        THEN [st0 EXCEPT !.conn[w].reply = "No quiz data provided"]
        ELSE broadcast(w, [st0 EXCEPT !.heap[o] = load_quiz(@, quiz)], "bcast.loaded")

\* the quiz.start branch up to its first await
quiz_start(w, st) ==
    LET st0 == touch(w, st, "quiz.start")
        o == st0.conn[w].session
    IN  IF o = NoObj THEN no_session(w, st0)
        ELSE IF ~st0.conn[w].is_host THEN fallback(w, st0)
        ELSE IF start_quiz(st0.heap[o]).ret
        THEN broadcast(w, [st0 EXCEPT !.heap[o] = on_quiz_start(@)], "bcast.question")
        ELSE [st0 EXCEPT !.conn[w].reply = "No quiz loaded"]

\* await ws.send_text(answer.recorded); on a closed socket the send raises
answer_recorded(w, st) ==
    IF st.conn[w].sock = "open"
    THEN [st EXCEPT !.conn[w].pc = "recv", !.conn[w].todo = {},
                    !.conn[w].reply = "answer.recorded"]
    ELSE finally(w, [st EXCEPT !.conn[w].todo = {}])

\* the answer.submit branch up to its first await: record_answer, then the
\* histogram for the host whatever record_answer returned
answer_submit(w, st, answer_idx, elapsed) ==
    LET st0 == touch(w, st, "answer.submit")
        o == st0.conn[w].session
    IN  IF o = NoObj THEN no_session(w, st0)
        ELSE LET st1 == [st0 EXCEPT !.heap[o] =
                              record_answer(@, WsPlayer[w], answer_idx, elapsed).s]
                 host_id == st1.heap[o].host_id
                 host_ws == Get(st1.heap[o].connections, host_id, NoWs)
             IN  IF host_ws # NoWs
                 THEN [st1 EXCEPT !.conn[w].pc = "hist",
                                  !.conn[w].todo = {<<host_id, host_ws>>}]
                 ELSE answer_recorded(w, st1)

\* session.create with a password arrives on w
CreatePw(w) ==
    /\ conn[w].sock = "open"
    /\ conn[w].pc = "recv"
    /\ \E pw \in NewPasswords, sid \in SessionIds :
          /\ get_session(quiz_sessions, sid) = NoObj => NewObj(heap) <= MaxObjs
          /\ TDStep(create(w, Now, sid, pw))

\* session.join with or without a password arrives on w
JoinPw(w) ==
    /\ conn[w].sock = "open"
    /\ conn[w].pc = "recv"
    /\ \E pw \in TriedPasswords, sid \in SessionIds :
          TDStep(join(w, Now, sid, pw))

\* quiz.load arrives on w
QuizLoad(w) ==
    /\ conn[w].sock = "open"
    /\ conn[w].pc = "recv"
    /\ \E quiz \in QuizData : TDStep(quiz_load(w, Now, quiz))

\* quiz.start arrives on w
QuizStart(w) ==
    /\ conn[w].sock = "open"
    /\ conn[w].pc = "recv"
    /\ conn[w].session # NoObj => heap[conn[w].session].current_question_idx + 1 < MaxIdx
    /\ TDStep(quiz_start(w, Now))

\* answer.submit arrives on w
AnswerSubmit(w) ==
    /\ conn[w].sock = "open"
    /\ conn[w].pc = "recv"
    /\ \E a \in SentAnswers, e \in Elapsed : TDStep(answer_submit(w, Now, a, e))

\* await host_ws.send_text(question.histogram) returns or raises (pass)
HistSent(w) ==
    /\ conn[w].pc = "hist"
    /\ \E item \in conn[w].todo :
          TDStep(answer_recorded(w, Now))

\* a message of a type no branch takes
unknown(w, st) ==
    LET st0 == touch(w, st, "unknown")
    IN  IF st0.conn[w].session = NoObj THEN no_session(w, st0) ELSE fallback(w, st0)

\* a message of a type the server does not know arrives on w
Unknown(w) ==
    /\ conn[w].sock = "open"
    /\ conn[w].pc = "recv"
    /\ TDStep(unknown(w, Now))

\* no session yet; h1 and s1 are connected
InitMsg ==
    /\ quiz_sessions = [sid \in SessionIds |-> NoObj]
    /\ heap = <<>>
    /\ conn = [w \in WsIds |->
                 IF w = 1 THEN [Conn0 EXCEPT !.sock = "open", !.pc = "recv"]
                 ELSE IF w = 2 THEN [Conn0 EXCEPT !.sock = "open", !.pc = "recv"]
                 ELSE Conn0]
    /\ clock = 0
    /\ hb = HB0

\* the connections of the host's client and of the students' clients: the
\* first sends session.create and quiz.load, the others session.join; any of
\* them sends quiz.start, answer.submit and unknown messages
HostWs == {w \in WsIds : WsPlayer[w] = HostId}
StudentWs == WsIds \ HostWs

NextMsg ==
    \/ \E w \in HostWs : CreatePw(w)
    \/ \E w \in StudentWs : JoinPw(w)
    \/ \E w \in WsIds : AttachedSent(w)
    \/ \E w \in WsIds : BcastSent(w)
    \/ \E w \in HostWs : QuizLoad(w)
    \/ \E w \in WsIds : QuizStart(w)
    \/ \E w \in WsIds : AnswerSubmit(w)
    \/ \E w \in WsIds : HistSent(w)
    \/ \E w \in WsIds : Unknown(w)

SpecMsg == InitMsg /\ [][NextMsg]_vars

\* SpecPw: session.create and session.join with passwords, from any connection
NextPw ==
    \/ \E w \in WsIds : CreatePw(w)
    \/ \E w \in WsIds : JoinPw(w)
    \/ \E w \in WsIds : AttachedSent(w)
    \/ \E w \in WsIds : BcastSent(w)
    \/ \E w \in WsIds : CloseDone(w)

SpecPw == InitMsg /\ [][NextPw]_vars

-----------------------------------------------------------------------------
(* SpecHost: session.create and the host commands quiz.load, quiz.start and
   player.kick, sent by any connection while the session exists *)

NextHost ==
    \/ \E w \in WsIds : Create(w)
    \/ \E w \in WsIds : QuizLoad(w)
    \/ \E w \in WsIds : QuizStart(w)
    \/ \E w \in WsIds : Kick(w)
    \/ \E w \in WsIds : KickSent(w)
    \/ \E w \in WsIds : KickClosed(w)
    \/ \E w \in WsIds : BcastSent(w)

SpecHost == InitKick /\ [][NextHost]_vars

-----------------------------------------------------------------------------
(* SpecReg: the registry functions create_session and delete_session called
   with and without a session id, and add_player / remove_player on the
   sessions they made *)

\* session_id=None
NoId == ""

\* what secrets.token_urlsafe(6) may return: an id that is in use, or another
TokenIds == SessionIds \cup {"T"}

\* create_session as a whole: a token for the id when none is given, the
\* ValueError for a given id that is registered (ret FALSE)
create_session_call(st, host_id, session_id, password, token) ==
    IF session_id = NoId
    THEN R(create_session(st, host_id, token, password), TRUE)
    ELSE IF get_session(st.reg, session_id) # NoObj
         THEN R(st, FALSE)
         ELSE R(create_session(st, host_id, session_id, password), TRUE)

CreateSession ==
    /\ NewObj(heap) <= MaxObjs
    /\ \E host_id \in PlayerIds, session_id \in SessionIds \cup {NoId},
          password \in NewPasswords \cup {""}, token \in TokenIds :
          TDStep(create_session_call(Now, host_id, session_id, password, token).s)

DeleteSession ==
    /\ \E session_id \in DOMAIN quiz_sessions :
          quiz_sessions' = delete_session(quiz_sessions, session_id)
    /\ UNCHANGED <<heap, conn, clock, hb>>

\* an empty registry; no connection
InitReg ==
    /\ quiz_sessions = [sid \in TokenIds |-> NoObj]
    /\ heap = <<>>
    /\ conn = [w \in WsIds |-> Conn0]
    /\ clock = 0
    /\ hb = HB0

NextReg ==
    \/ CreateSession
    \/ DeleteSession
    \/ \E o \in DOMAIN heap : AddPlayer(o)
    \/ \E o \in DOMAIN heap : RemovePlayer(o)

SpecReg == InitReg /\ [][NextReg]_vars

-----------------------------------------------------------------------------
(* Claims on SpecHB *)

Range(q) == {q[i] : i \in DOMAIN q}

\* the websocket registered for player pid of session object o, or NoWs
WsOf(o, pid) == Get(heap[o].connections, pid, NoWs)

\* C6: when a heartbeat pass is over, no player is left in the roster from
\* whom nothing had been received for more than HARD_TIMEOUT when the pass
\* took its time (the message that joined the player counts as received).
C6_SilentPlayerEvicted ==
    (hb.pc = "sleep" /\ hb.scans > 0) =>
        \A sid \in SessionIds :
            LET o == quiz_sessions[sid] IN
            o # NoObj =>
                \A pid \in DOMAIN heap[o].players :
                    WsOf(o, pid) # NoWs =>
                        hb.now - conn[WsOf(o, pid)].heard <= HARD_TIMEOUT

\* the step in which ping_loop scans the players of session object o: the
\* last ping of o returns, or o has no connection to ping when the loop wakes
ScanStep(o) ==
    /\ hb' # hb
    /\ \/ hb.pc = "ping" /\ hb.cur = o /\ Cardinality(hb.todo) = 1
       \/ /\ hb.pc = "sleep"
          /\ \E sid \in SessionIds : quiz_sessions[sid] = o
          /\ heap[o].connections = EmptyDict
ScanNow == IF hb.pc = "sleep" THEN clock ELSE hb.now

C8_StaleRecovers ==
    [][\A w \in WsIds :
          (Recv(w) /\ Has(heap[conn[w].session].players, WsPlayer[w])) =>
              heap'[conn[w].session].players[WsPlayer[w]].status = "active"]_vars

\* the message types of the protocol, and one the server does not know
AllMsgTypes ==
    {"pong", "session.create", "session.join", "quiz.load", "quiz.start",
     "question.next", "question.end", "player.kick", "quiz.stop",
     "answer.submit", "chat", "unknown"}

\* C27: whatever its type, a message processed from the connection of a
\* roster player leaves the player's last_seen at the time of the message; a
\* pong sets last_pong to it as well; last_seen never moves backwards.
C27_LastSeenRefreshed ==
    [][/\ \A w \in WsIds :
             (Recv(w) /\ Has(heap[conn[w].session].players, WsPlayer[w])) =>
                 LET o == conn[w].session
                     pid == WsPlayer[w]
                 IN  /\ heap'[o].players[pid].last_seen = clock
                     /\ heap'[o].players[pid].last_pong
                            \in {clock, heap[o].players[pid].last_pong}
                     /\ \A t \in AllMsgTypes :
                            LET p == on_message(heap[o], pid, t, clock).players[pid]
                            IN  /\ p.last_seen = clock
                                /\ t = "pong" => p.last_pong = clock
       /\ \A o \in DOMAIN heap \cap DOMAIN heap' :
             \A pid \in DOMAIN heap[o].players \cap DOMAIN heap'[o].players :
                 heap'[o].players[pid].last_seen >= heap[o].players[pid].last_seen]_vars

\* s1 answered a ping earlier and has now sent a message that is not a pong:
\* last_seen is the present time, last_pong the earlier one
C27_Witness ==
    \E o \in DOMAIN heap :
        /\ Has(heap[o].players, "s1")
        /\ heap[o].players["s1"].last_seen = clock
        /\ heap[o].players["s1"].last_pong # NoTime
        /\ heap[o].players["s1"].last_pong < clock

\* C39: the heartbeat removes a player from the roster only if, at the
\* moment of the removal, the player has been silent for more than
\* HARD_TIMEOUT.
C39_EvictedOnlyIfStillSilent ==
    [][\A o \in DOMAIN heap : \A pid \in DOMAIN heap[o].players :
          ~Has(heap'[o].players, pid) =>
              clock - last_heard(heap[o].players[pid]) > HARD_TIMEOUT]_vars

-----------------------------------------------------------------------------
(* Claims on SpecKick *)

\* a connection of player pid attached to session object o was sent kicked
WasKicked(o, pid) ==
    \E w \in WsIds : /\ WsPlayer[w] = pid
                     /\ conn[w].session = o
                     /\ Kicked \in conn[w].got

\* C11: a player id whose connection has been sent kicked by the host of a
\* session is never added to the roster of that session again.
C11_KickedNeverReturns ==
    [][\A o \in DOMAIN heap : \A pid \in PlayerIds :
          (WasKicked(o, pid) /\ ~Has(heap[o].players, pid)) =>
              ~Has(heap'[o].players, pid)]_vars

\* the handler of w leaves its loop and runs the finally block
EntersFinally(w) ==
    /\ conn[w].pc \in {"recv", "attached"}
    /\ conn'[w].pc \in {"done", "bcast.removed", "bcast.closed", "closing"}

\* C34: the cleanup of a connection removes only its own registration: when
\* the id of w is registered with another connection v that is open, the
\* finally block of w leaves v in the connection map and the player in the
\* roster.
C34_CleanupOnlyOwnRegistration ==
    [][\A w \in WsIds :
          (EntersFinally(w) /\ conn[w].session # NoObj) =>
              LET o == conn[w].session
                  pid == WsPlayer[w]
              IN  (/\ Has(heap[o].connections, pid)
                   /\ heap[o].connections[pid] # w
                   /\ conn[heap[o].connections[pid]].sock = "open") =>
                      /\ Has(heap'[o].players, pid)
                      /\ Has(heap'[o].connections, pid)
                      /\ heap'[o].connections[pid] = heap[o].connections[pid]]_vars

\* C35: pruning removes only the connection whose send failed: a player
\* that stays in the roster, and whose registered connection is open before
\* and after a step, is registered with that connection after the step.
C35_PruneOnlyFailedConnection ==
    [][\A o \in DOMAIN heap : \A pid \in DOMAIN heap[o].connections :
          LET v == heap[o].connections[pid]
          IN  (/\ conn[v].sock = "open"
               /\ conn'[v].sock = "open"
               /\ Has(heap'[o].players, pid)
               /\ Has(heap[o].players, pid)) =>
                  /\ Has(heap'[o].connections, pid)
                  /\ heap'[o].connections[pid] = v]_vars

-----------------------------------------------------------------------------
(* Claims on SpecHost *)

\* the connection that created the session it is attached to
CreatedSession(w) ==
    /\ conn[w].session # NoObj
    /\ heap[conn[w].session].host_id = WsPlayer[w]

\* the handler of w leaves the head of the loop for a branch of a host command
\* that changes the session
HostCommandActs(w) ==
    /\ conn[w].pc = "recv"
    /\ conn'[w].pc \in {"kick.send", "bcast.kick", "bcast.loaded", "bcast.question"}

\* C33: a host command (quiz.load, quiz.start, player.kick) takes effect only
\* on the connection that created the session: no other connection loads or
\* starts a quiz or kicks a player, whatever session.create it sent before.
C33_HostCommandsOnlyForCreator ==
    [][\A w \in WsIds : HostCommandActs(w) => CreatedSession(w)]_vars

\* the handler of w is, after the step, in broadcast_lobby for session object
\* o with the payload msg, about to send to every connection o has
Announces(w, o, msg) ==
    /\ conn'[w].session = o
    /\ conn'[w].pc \in {"bcast.added", "bcast.removed", "bcast.kick"}
    /\ BcastMsg(w)' = msg
    /\ conn'[w].todo = Items(heap'[o].connections)

\* the session object o is registered before and after the step
Live(o) == quiz_sessions[heap[o].id] = o /\ quiz_sessions'[heap[o].id] = o

\* C32: in a live session every roster change leads to a lobby.update for the
\* connections the session has: a removal starts the broadcast naming the
\* removed id, an addition is followed by the session.created / session.joined
\* reply and, when that send is over, by the broadcast naming the added id.
C32_RosterChangeAnnounced ==
    [][\A o \in DOMAIN heap : Live(o) =>
          /\ \A pid \in PlayerIds :
                (Has(heap[o].players, pid) /\ ~Has(heap'[o].players, pid)) =>
                    \/ DOMAIN heap'[o].connections = {}
                    \/ \E w \in WsIds : Announces(w, o, LobbyRemoved(pid))
          /\ \A pid \in PlayerIds :
                (~Has(heap[o].players, pid) /\ Has(heap'[o].players, pid)) =>
                    \E w \in WsIds : /\ WsPlayer[w] = pid
                                     /\ conn'[w].session = o
                                     /\ conn'[w].pc = "attached"
          /\ \A w \in WsIds :
                (/\ conn[w].session = o
                 /\ conn[w].pc = "attached"
                 /\ conn'[w].pc # "attached"
                 /\ Has(heap[o].players, WsPlayer[w])) =>
                    \/ DOMAIN heap'[o].connections = {}
                    \/ Announces(w, o, LobbyAdded(WsPlayer[w]))]_vars

-----------------------------------------------------------------------------
(* Claims on SpecTD *)

Registered(o) == \E sid \in SessionIds : quiz_sessions[sid] = o

\* the step that ends the finally block of a host on w
TeardownDone(w) ==
    /\ conn[w].is_host
    /\ conn[w].session # NoObj
    /\ conn[w].pc # "done"
    /\ conn'[w].pc = "done"

\* C9: when the teardown of a disconnected host has removed the session
\* from the registry, no connection attached to that session is open, and
\* every connection attached to it that is not the host's has been sent
\* session.closed or had gone away by itself.
C9_NoOpenConnectionOnRemovedSession ==
    \A w \in WsIds :
        (conn[w].session # NoObj /\ ~Registered(conn[w].session)) =>
            conn[w].sock # "open"

\* the task of w is inside broadcast
InBroadcast(w) == conn[w].pc \in {"bcast.added", "bcast.removed", "bcast.closed", "bcast.kick",
                                   "bcast.loaded", "bcast.question"}

\* the step in which the broadcast of the task of w returns
BroadcastReturns(w) ==
    /\ InBroadcast(w)
    /\ Cardinality(conn[w].todo) = 1
    /\ conn'[w].pc # conn[w].pc

\* the ids whose send has failed when the broadcast of w returns
FailedIds(w) ==
    conn[w].dead \cup {item[1] : item \in {i \in conn[w].todo : conn[i[2]].sock # "open"}}

\* C13: when a broadcast returns, an id whose send failed during it is in
\* neither the connection map nor the roster of the session.
C13_FailedSendRemovesPlayer ==
    [][\A w \in WsIds :
          BroadcastReturns(w) =>
              \A pid \in FailedIds(w) :
                  /\ ~Has(heap'[conn[w].session].connections, pid)
                  /\ ~Has(heap'[conn[w].session].players, pid)]_vars

\* where the handler of w goes on when its broadcast has returned
Continuations(kind) ==
    CASE kind = "bcast.added" -> {"recv"}
      [] kind = "bcast.kick" -> {"recv"}
      [] kind \in {"bcast.loaded", "bcast.question"} -> {"recv"}
      [] kind = "bcast.removed" -> {"done"}
      [] OTHER -> {"closing", "done"}

\* C14: every step of a broadcast takes one connection of the list that is
\* still to be served; if its socket is open it is sent the message, if not
\* its id goes on the dead list; either way the rest of the list stays to be
\* served, and after the last one the handler goes on where a broadcast
\* without failures would have left it.
C14_SendFailureContained ==
    [][\A w \in WsIds :
          (InBroadcast(w) /\ conn'[w].todo # conn[w].todo) =>
              \E item \in conn[w].todo :
                  /\ conn[item[2]].sock = "open" => BcastMsg(w) \in conn'[item[2]].got
                  /\ Cardinality(conn[w].todo) > 1 =>
                        /\ conn'[w].pc = conn[w].pc
                        /\ conn'[w].todo = conn[w].todo \ {item}
                        /\ conn[item[2]].sock # "open" => item[1] \in conn'[w].dead
                  /\ Cardinality(conn[w].todo) = 1 =>
                        /\ conn'[w].pc \in Continuations(conn[w].pc)
                        /\ conn'[w].todo \in {{}, Items(heap'[conn[w].session].connections)}]_vars

\* a send of a broadcast has failed and the rest of the list is still served
C14_Witness ==
    \E w \in WsIds :
        /\ InBroadcast(w)
        /\ conn[w].dead # {}
        /\ conn[w].todo # {}

\* C10: the step that ends a host's teardown of session X leaves X out of
\* the registry; a session.join for an id that is not registered is answered
\* "Session not found", adds no player or connection to any session and
\* attaches nothing; a
\* session.create for an id that is not registered registers a new session
\* object in state LOBBY with index -1 whose roster is the creator alone.
C10_AbsentThenFresh ==
    [][\A w \in WsIds :
         /\ TeardownDone(w) => quiz_sessions'[heap[conn[w].session].id] = NoObj
         /\ \A sid \in SessionIds :
              quiz_sessions[sid] = NoObj =>
                /\ Join(w) =>
                     /\ DOMAIN heap' = DOMAIN heap
                     /\ \A o \in DOMAIN heap :
                           /\ DOMAIN heap'[o].players = DOMAIN heap[o].players
                           /\ heap'[o].connections = heap[o].connections
                     /\ conn'[w].reply = "Session not found"
                     /\ conn'[w].session = conn[w].session
                     /\ quiz_sessions' = quiz_sessions
                /\ Create(w) =>
                     LET o == quiz_sessions'[sid]
                     IN  /\ o # NoObj
                         /\ o \notin DOMAIN heap
                         /\ heap'[o].state = LOBBY
                         /\ heap'[o].current_question_idx = -1
                         /\ ~heap'[o].quiz.loaded
                         /\ DOMAIN heap'[o].players = {WsPlayer[w]}
                         /\ heap'[o].connections = (WsPlayer[w] :> w)
                         /\ heap'[o].answer_log = EmptyDict
                         /\ heap'[o].host_id = WsPlayer[w]
                         /\ conn'[w].session = o
                         /\ conn'[w].reply = "session.created"
                         /\ \A old \in DOMAIN heap :
                               /\ DOMAIN heap'[old].players = DOMAIN heap[old].players
                               /\ heap'[old].connections = heap[old].connections
                               /\ heap'[old].state = heap[old].state]_vars

\* the host of the started session is gone, its teardown is over, and X has
\* been created again: the old object is still ACTIVE with its roster, the
\* registered one is new
C10_Witness ==
    /\ conn[1].pc = "done"
    /\ quiz_sessions["X"] = 2
    /\ heap[1].state = ACTIVE
    /\ heap[2].state = LOBBY
    /\ heap[2].current_question_idx = -1
    /\ DOMAIN heap[1].players # {}
    /\ \E w \in WsIds : /\ conn[w].session = 2
                        /\ conn[w].reply = "session.created"
                        /\ DOMAIN heap[2].players = {WsPlayer[w]}

\* C29: a session leaves the registry only in the step that ends the
\* teardown of its host's connection (the connection of the player whose
\* session.create made it), and only that connection starts the
\* session.closed broadcast; the end of any other connection does neither.
C29_OnlyHostEndsSession ==
    [][/\ \A sid \in SessionIds :
             (quiz_sessions[sid] # NoObj /\ quiz_sessions'[sid] = NoObj) =>
                 \E w \in WsIds :
                     /\ WsPlayer[w] = heap[quiz_sessions[sid]].host_id
                     /\ conn[w].session = quiz_sessions[sid]
                     /\ conn[w].pc # "done"
                     /\ conn'[w].pc = "done"
       /\ \A w \in WsIds :
             (conn[w].pc # "bcast.closed" /\ conn'[w].pc = "bcast.closed") =>
                 WsPlayer[w] = heap[conn[w].session].host_id]_vars

-----------------------------------------------------------------------------
(* Claims on SpecPw and SpecMsg *)

\* C25: in a session that has a password, a player enters the roster of the
\* registered session only by the session.join of its own connection with
\* the session's password; a session.join without or with another password
\* adds no player and no connection and attaches nothing.
C25_PasswordGate ==
    [][\A o \in DOMAIN heap :
          heap[o].password # "" =>
              /\ \A pid \in DOMAIN heap'[o].players \ DOMAIN heap[o].players :
                     \E w \in WsIds, sid \in SessionIds :
                         /\ WsPlayer[w] = pid
                         /\ quiz_sessions[sid] = o
                         /\ conn[w].sock = "open" /\ conn[w].pc = "recv"
                         /\ conn'[w].session = o
                         /\ <<heap', conn', quiz_sessions'>>
                                = LET st == join(w, Now, sid, heap[o].password)
                                  IN  <<st.heap, st.conn, st.reg>>
              /\ \A w \in WsIds, sid \in SessionIds, pw \in TriedPasswords :
                     (quiz_sessions[sid] = o /\ pw # heap[o].password) =>
                         LET st == join(w, Now, sid, pw)
                         IN  /\ DOMAIN st.heap[o].players \subseteq DOMAIN heap[o].players
                             /\ DOMAIN st.heap[o].connections
                                    \subseteq DOMAIN heap[o].connections
                             /\ st.conn[w].session = conn[w].session]_vars

\* s1 is in the roster of the password-protected session that h1 created,
\* after one rejected session.join and one with the password
C25_Witness ==
    \E o \in DOMAIN heap :
        /\ quiz_sessions["X"] = o
        /\ heap[o].password = "pw"
        /\ heap[o].host_id = "h1"
        /\ Has(heap[o].players, "s1")
        /\ Has(heap[o].connections, "s1")
        /\ conn[2].session = o
        /\ conn[2].attempts = 2
        /\ conn[2].reply = "session.joined"

\* C26: a connection has three tries; the third session.join with a wrong
\* password, the one that takes the counter to zero, closes the connection.
C26_ThirdWrongJoinCloses ==
    [][\A w \in WsIds :
          (conn[w].attempts = 1 /\ conn'[w].attempts = 0) =>
              /\ conn'[w].sock = "closed"
              /\ conn'[w].pc # "recv"]_vars

\* the duplicate answer.submit: the player of w has an entry for the
\* current question
Duplicate(w) ==
    LET o == conn[w].session
    IN  /\ o # NoObj
        /\ get_current_question(heap[o]) # NoQuestion
        /\ Has(heap[o].answer_log, heap[o].current_question_idx)
        /\ Has(heap[o].answer_log[heap[o].current_question_idx], WsPlayer[w])

\* what the handler of w makes of each message that is answered with a
\* locally recovered error in the present state
ErrorResults(w) ==
    LET o == conn[w].session
        joins == {join(w, Now, sid, pw) : sid \in SessionIds, pw \in TriedPasswords}
    IN  {st \in joins :
            /\ st.conn[w].reply \in {"Session not found", "Name already taken", "reject.pw"}
            /\ st.conn[w].sock = "open"}
        \cup {create(w, Now, sid, pw) : sid \in {x \in SessionIds :
                                                    get_session(quiz_sessions, x) # NoObj},
                                        pw \in NewPasswords}
        \cup (IF o = NoObj
              THEN {quiz_start(w, Now)}
                   \cup {quiz_load(w, Now, quiz) : quiz \in QuizData}
                   \cup {answer_submit(w, Now, a, e) : a \in SentAnswers, e \in Elapsed}
              ELSE {})
        \cup (IF o # NoObj /\ conn[w].is_host /\ ~start_quiz(heap[o]).ret
              THEN {quiz_start(w, Now)} ELSE {})
        \cup (IF Duplicate(w)
              THEN {answer_submit(w, Now, a, e) : a \in SentAnswers, e \in Elapsed}
              ELSE {})
        \cup {unknown(w, Now)}

\* the handler of w is still in its loop with no send to another connection
\* to make, and no other connection, no session in the registry and no
\* record but that of w's own player has changed
ErrorFrame(w, st) ==
    /\ st.conn[w].sock = "open"
    /\ st.conn[w].pc \in {"recv", "hist"}
    /\ \A item \in st.conn[w].todo : item[2] = w
    /\ \A v \in WsIds \ {w} : st.conn[v] = conn[v]
    /\ st.reg = quiz_sessions
    /\ DOMAIN st.heap = DOMAIN heap
    /\ \A o \in DOMAIN heap :
          /\ DOMAIN st.heap[o].players = DOMAIN heap[o].players
          /\ [st.heap[o] EXCEPT !.players = [pid \in DOMAIN @ \ {WsPlayer[w]} |-> @[pid]]]
                 = [heap[o] EXCEPT !.players = [pid \in DOMAIN @ \ {WsPlayer[w]} |-> @[pid]]]

\* C28: a message that runs into one of the locally recovered errors is
\* answered on its own connection only: nothing is sent to another
\* connection, the handler stays in its loop, and the sessions and the
\* records of the other players are as before.
C28_ErrorsStayLocal ==
    \A w \in WsIds :
        (conn[w].sock = "open" /\ conn[w].pc = "recv") =>
            \A st \in ErrorResults(w) : ErrorFrame(w, st)

\* C30: a create_session that makes a session, with or without an id given,
\* leaves every registered id with the session it had, unchanged; a
\* create_session for a registered id makes none.
C30_CreateNeverReplaces ==
    [][/\ DOMAIN heap' # DOMAIN heap =>
             \A sid \in DOMAIN quiz_sessions :
                 quiz_sessions[sid] # NoObj =>
                     /\ quiz_sessions'[sid] = quiz_sessions[sid]
                     /\ heap'[quiz_sessions[sid]] = heap[quiz_sessions[sid]]
       /\ \A host_id \in PlayerIds, sid \in DOMAIN quiz_sessions,
             password \in NewPasswords \cup {""}, token \in TokenIds :
             quiz_sessions[sid] # NoObj =>
                 create_session_call(Now, host_id, sid, password, token) = R(Now, FALSE)]_vars

-----------------------------------------------------------------------------
(* Claims on Spec *)

Sum4(c) == c[1] + c[2] + c[3] + c[4]

\* C1: within one quiz load an entry of a question's answer-log bucket is never
\* removed and its option index is never changed (first answer wins), also
\* when the player left and rejoined under the same id. The bucket is a dict
\* keyed by player id, so an id has at most one entry in it.
C1_FirstAnswerWins ==
    [][(\E o \in DOMAIN heap : LoadQuiz(o))
       \/ \A o \in DOMAIN heap :
            \A q \in DOMAIN heap[o].answer_log :
              \A p \in DOMAIN heap[o].answer_log[q] :
                 /\ Has(heap'[o].answer_log, q)
                 /\ Has(heap'[o].answer_log[q], p)
                 /\ heap'[o].answer_log[q][p] = heap[o].answer_log[q][p]]_vars

\* a player with an entry for the current question is in the roster as a new
\* Player (answered_current false): it answered, left and rejoined
C1_Witness ==
    \E o \in DOMAIN heap :
        LET s == heap[o] IN
        /\ get_current_question(s) # NoQuestion
        /\ \E p \in DOMAIN s.players :
              /\ Has(s.answer_log, s.current_question_idx)
              /\ Has(s.answer_log[s.current_question_idx], p)
              /\ ~s.players[p].answered_current

\* C2: once close_question_scoring has run, running it again for the same
\* question changes no player's score or round_scores.
C2_CloseIdempotent ==
    [][\A o \in DOMAIN heap :
          CloseQuestionScoring(o) =>
              close_question_scoring(heap'[o]).players = heap'[o].players]_vars

\* C3: state = ACTIVE implies current_question_idx < number of questions.
C3_ActiveInRange ==
    \A o \in DOMAIN heap :
        heap[o].state = ACTIVE =>
            heap[o].current_question_idx < Len(heap[o].quiz.questions)

\* C4: current_question_idx never decreases, except that load_quiz sets it to -1.
C4_IndexMonotone ==
    [][\A o \in DOMAIN heap :
          heap'[o].current_question_idx < heap[o].current_question_idx =>
              /\ LoadQuiz(o)
              /\ heap'[o].current_question_idx = -1]_vars

\* the pointer has run past the last question of a two-question quiz
C4_Witness ==
    \E o \in DOMAIN heap :
        /\ Len(heap[o].quiz.questions) = 2
        /\ heap[o].current_question_idx >= 2
        /\ heap[o].state = FINISHED

\* C12: add_player with an id that is in the roster, on any websocket,
\* returns None and leaves the session as it is (the Player record and the
\* registered connection of that id included); every roster key is the
\* player_id of its record, so no id is in the roster twice.
C12_DuplicateRejected ==
    \A o \in DOMAIN heap :
        /\ \A pid \in DOMAIN heap[o].players :
              /\ heap[o].players[pid].player_id = pid
              /\ \A w \in WsIds : add_player(heap[o], pid, w) = R(heap[o], FALSE)
        /\ DOMAIN heap[o].connections \subseteq DOMAIN heap[o].players

\* s1 is in the roster with a score and a round history, registered on
\* websocket 2, and an add_player for s1 on websocket 4 is refused
C12_Witness ==
    \E o \in DOMAIN heap :
        /\ Has(heap[o].players, "s1")
        /\ heap[o].players["s1"].score > 0
        /\ Len(heap[o].players["s1"].round_scores) > 0
        /\ heap[o].players["s1"].answered_current
        /\ heap[o].connections["s1"] = 2
        /\ ~add_player(heap[o], "s1", 4).ret

\* C15: after load_quiz the session is in LOBBY with index -1, both the
\* answer log and the answer-time log are empty, the tally is all zero, and
\* every roster player has score 0, no round scores and answered_current
\* false.
C15_LoadQuizResets ==
    [][\A o \in DOMAIN heap :
          LoadQuiz(o) =>
              /\ heap'[o].state = LOBBY
              /\ heap'[o].current_question_idx = -1
              /\ heap'[o].answer_log = EmptyDict
              /\ heap'[o].answer_time_log = EmptyDict
              /\ heap'[o].answer_counts = ZeroCounts
              /\ \A p \in DOMAIN heap'[o].players :
                    /\ heap'[o].players[p].score = 0
                    /\ heap'[o].players[p].round_scores = <<>>
                    /\ ~heap'[o].players[p].answered_current]_vars

\* C16: a start_quiz that returns False (no quiz, or a quiz without
\* questions) leaves the session as it was; after a start_quiz that returns
\* True the session is ACTIVE and its index is -1.
C16_StartQuizContract ==
    [][\A o \in DOMAIN heap :
          StartQuiz(o) =>
              IF start_quiz(heap[o]).ret
              THEN /\ heap'[o].state = ACTIVE
                   /\ heap'[o].current_question_idx = -1
              ELSE /\ heap'[o] = heap[o]
                   /\ ~heap[o].quiz.loaded \/ Len(heap[o].quiz.questions) = 0]_vars

\* what next_question does to session s when it gets as far as the pointer
NextQuestionPost(s) ==
    LET r == next_question(s)
        idx == r.s.current_question_idx
    IN  /\ idx = s.current_question_idx + 1
        /\ IF idx >= Len(s.quiz.questions)
           THEN /\ r.s.state = FINISHED
                /\ r.ret = NoQuestion
           ELSE /\ r.ret = s.quiz.questions[idx + 1]
                /\ r.s.state = s.state
                /\ \A p \in DOMAIN r.s.players : ~r.s.players[p].answered_current
                /\ r.s.answer_log[idx] = EmptyDict
                /\ r.s.answer_counts = ZeroCounts
                /\ get_answer_counts(r.s, NoTime) = <<0, 0, 0, 0>>

\* C17 as stated: in every state next_question moves the pointer on by one,
\* then finishes the quiz and returns None, or returns the question at the
\* new pointer with the flags, the bucket of the new index and the tally reset.
C17_NextQuestionAlways ==
    \A o \in DOMAIN heap : NextQuestionPost(heap[o])

\* C17 amended: it does so when a quiz is loaded; with no quiz it returns
\* None and leaves the session as it is.
C17_NextQuestionWithQuiz ==
    \A o \in DOMAIN heap :
        IF heap[o].quiz.loaded
        THEN NextQuestionPost(heap[o])
        ELSE next_question(heap[o]) = R(heap[o], NoQuestion)

\* next_question has opened question 1 after answers to question 0: the
\* bucket of 0 is kept, the bucket of 1 is empty and no flag is set
C17_Witness ==
    \E o \in DOMAIN heap :
        /\ heap[o].current_question_idx = 1
        /\ heap[o].state = ACTIVE
        /\ Has(heap[o].answer_log, 0)
        /\ heap[o].answer_log[0] # EmptyDict
        /\ heap[o].answer_log[1] = EmptyDict
        /\ \A p \in DOMAIN heap[o].players : ~heap[o].players[p].answered_current

\* C18: the state of a session changes only from LOBBY to ACTIVE, from
\* ACTIVE to FINISHED with the pointer past the last question, and back to
\* LOBBY by load_quiz.
C18_Lifecycle ==
    [][\A o \in DOMAIN heap :
          heap'[o].state # heap[o].state =>
              \/ heap[o].state = LOBBY /\ heap'[o].state = ACTIVE
              \/ /\ heap[o].state = ACTIVE
                 /\ heap'[o].state = FINISHED
                 /\ heap'[o].current_question_idx >= Len(heap'[o].quiz.questions)
              \/ heap'[o].state = LOBBY /\ LoadQuiz(o)]_vars

\* C19: once close_question_scoring has run for the current question, a
\* record_answer for it changes neither the answer log nor get_answer_counts.
C19_ClosedQuestionFrozen ==
    \A o \in DOMAIN heap : \A pid \in PlayerIds, a \in AnswerIdx, e \in Elapsed :
        get_current_question(heap[o]) # NoQuestion =>
            LET closed == close_question_scoring(heap[o])
                r == record_answer(closed, pid, a, e)
            IN  /\ r.s.answer_log = closed.answer_log
                /\ get_answer_counts(r.s, NoTime) = get_answer_counts(closed, NoTime)

\* the conditions under which record_answer is to reject
Rejected(s, pid) ==
    \/ ~Has(s.players, pid)
    \/ get_current_question(s) = NoQuestion
    \/ /\ Has(s.answer_log, s.current_question_idx)
       /\ Has(s.answer_log[s.current_question_idx], pid)

\* C20: a record_answer for an unknown player, without a current question,
\* or for a player that has an entry for the current question returns False
\* and leaves the whole session as it is.
C20_RejectedAnswerNoEffect ==
    \A o \in DOMAIN heap : \A pid \in PlayerIds \cup {"s2"}, a \in AnswerIdx, e \in Elapsed \cup {5} :
        Rejected(heap[o], pid) => record_answer(heap[o], pid, a, e) = R(heap[o], FALSE)

\* s1 has answered the current question correctly: a second answer.submit
\* of s1 is one that is rejected
C20_Witness ==
    \E o \in DOMAIN heap :
        /\ get_current_question(heap[o]) # NoQuestion
        /\ Has(heap[o].players, "s1")
        /\ heap[o].players["s1"].answered_current
        /\ heap[o].players["s1"].score = 1
        /\ Rejected(heap[o], "s1")
        /\ Sum4(get_answer_counts(heap[o], NoTime)) > 0

\* C5: for every question, the entries of get_answer_counts sum to the number
\* of player ids in the question's answer-log bucket.
C5_CountsSumToAnswers ==
    \A o \in DOMAIN heap :
        \A q \in DOMAIN heap[o].answer_log :
            Sum4(get_answer_counts(heap[o], q)) = Cardinality(DOMAIN heap[o].answer_log[q])

\* C21: record_answer never changes a player's score: the score of a player
\* that stays in the roster changes only in a step of close_question_scoring
\* or is reset by load_quiz.
C21_ScoreOnlyAtClose ==
    [][\A o \in DOMAIN heap :
          \A pid \in DOMAIN heap[o].players \cap DOMAIN heap'[o].players :
              heap'[o].players[pid].score # heap[o].players[pid].score
                  => \/ heap'[o] = close_question_scoring(heap[o])
                     \/ \E quiz \in Quizzes : heap'[o] = load_quiz(heap[o], quiz)]_vars

\* twice the points of a correct answer given after e seconds, as stated:
\* max(floor(maxPoints / 2), (max(0, duration - e) / duration) * maxPoints)
ClaimedPoints2(maxPoints, duration, e) ==
    LET floorHalf2 == 2 * (maxPoints \div 2)
        left == IF duration - e > 0 THEN duration - e ELSE 0
        decayed2 == (2 * left * maxPoints) \div duration
    IN  IF floorHalf2 > decayed2 THEN floorHalf2 ELSE decayed2

\* C22: a correct answer given 5 seconds into a question (maxPoints 10,
\* duration 20) is worth 7.5 points when the question is closed: the score
\* grows by 7.5 and 7.5 is the entry appended to round_scores.
C22_TimeDecayPoints ==
    \A o \in DOMAIN heap : \A pid \in DOMAIN heap[o].players :
        (get_current_question(heap[o]) # NoQuestion /\ ~Rejected(heap[o], pid)) =>
            LET q == get_current_question(heap[o])
                answered == record_answer(heap[o], pid, q.correct_idx, 5).s
                closed == close_question_scoring(answered)
                rs == closed.players[pid].round_scores
            IN  /\ 2 * (closed.players[pid].score - heap[o].players[pid].score)
                       = ClaimedPoints2(10, 20, 5)
                /\ 2 * rs[Len(rs)] = ClaimedPoints2(10, 20, 5)

\* C23: a close_question_scoring of a current question appends 0 to the
\* round_scores of every roster player that has no entry, or an entry other
\* than correct_idx, in the question's bucket, and leaves that player's score.
C23_NoCreditForMissingOrWrong ==
    [][\A o \in DOMAIN heap :
          (CloseQuestionScoring(o) /\ get_current_question(heap[o]) # NoQuestion) =>
              LET q == get_current_question(heap[o])
                  bucket == Get(heap[o].answer_log, heap[o].current_question_idx, EmptyDict)
              IN  \A pid \in DOMAIN heap[o].players :
                      (~Has(bucket, pid) \/ bucket[pid] # q.correct_idx) =>
                          /\ Has(heap'[o].players, pid)
                          /\ heap'[o].players[pid].round_scores
                                 = Append(heap[o].players[pid].round_scores, 0)
                          /\ heap'[o].players[pid].score = heap[o].players[pid].score]_vars

\* question 0 has been closed with a wrong answer of s1 and none of h1: both
\* have the round score 0 and the score 0
C23_Witness ==
    \E o \in DOMAIN heap :
        LET s == heap[o]
            bucket == Get(s.answer_log, s.current_question_idx, EmptyDict)
        IN  /\ get_current_question(s) # NoQuestion
            /\ Has(s.players, "s1") /\ Has(s.players, "h1")
            /\ Has(bucket, "s1") /\ bucket["s1"] # get_current_question(s).correct_idx
            /\ ~Has(bucket, "h1")
            /\ s.players["s1"].round_scores = <<0>> /\ s.players["s1"].score = 0
            /\ s.players["h1"].round_scores = <<0>> /\ s.players["h1"].score = 0

\* C24: right after question i is closed, every roster player, late joiners
\* included, has exactly i + 1 round scores (taken in a session where the
\* earlier questions were closed once each and question i not yet: some
\* player holds i round scores and none holds more).
C24_RoundScoresLength ==
    [][\A o \in DOMAIN heap :
          (/\ CloseQuestionScoring(o)
           /\ get_current_question(heap[o]) # NoQuestion
           /\ \E old \in DOMAIN heap[o].players :
                  Len(heap[o].players[old].round_scores) = heap[o].current_question_idx
           /\ \A any \in DOMAIN heap[o].players :
                  Len(heap[o].players[any].round_scores) <= heap[o].current_question_idx) =>
              \A pid \in DOMAIN heap'[o].players :
                  Len(heap'[o].players[pid].round_scores)
                      = heap[o].current_question_idx + 1]_vars

\* C37: in every state, for each option 0..3, the live tally answer_counts
\* equals get_answer_counts() of the current question index.
C37_TallyInSync ==
    \A o \in DOMAIN heap :
        \A i \in 0..3 :
            heap[o].answer_counts[i] = get_answer_counts(heap[o], NoTime)[i + 1]

\* C38: outside of state ACTIVE every answer.submit is rejected: record_answer
\* returns False, writes nothing to the answer log and raises no score.
C38_AnswersOnlyWhenActive ==
    \A o \in DOMAIN heap : \A pid \in PlayerIds, a \in AnswerIdx, e \in Elapsed :
        heap[o].state # ACTIVE =>
            LET r == record_answer(heap[o], pid, a, e)
            IN  /\ ~r.ret
                /\ \A q \in DOMAIN r.s.answer_log :
                       Get(heap[o].answer_log, q, EmptyDict) = r.s.answer_log[q]
                /\ \A p \in DOMAIN heap[o].players :
                       r.s.players[p].score = heap[o].players[p].score

\* QuizOrchestrator.phase
Phases == {"idle", "question", "review", "finished"}

\* QuizOrchestrator.start_quiz on session s with the orchestrator in phase
\* ph: the session, the phase and the value returned afterwards
orchestrator_start_quiz(s, ph) ==
    IF ~start_quiz(s).ret
    THEN [s |-> start_quiz(s).s, phase |-> ph, ret |-> FALSE]
    ELSE LET n == next_question(start_quiz(s).s)
         IN  IF n.ret = NoQuestion
             THEN [s |-> [n.s EXCEPT !.state = FINISHED], phase |-> "finished", ret |-> FALSE]
             ELSE [s |-> n.s, phase |-> "question", ret |-> TRUE]

\* C40: when QuizOrchestrator.start_quiz returns True the session is ACTIVE,
\* the phase is "question" and question 0 is the current question; it
\* returns False only when no quiz with at least one question is loaded.
C40_OrchestratorStart ==
    \A o \in DOMAIN heap : \A ph \in Phases :
        LET r == orchestrator_start_quiz(heap[o], ph)
        IN  /\ r.ret => /\ r.s.state = ACTIVE
                        /\ r.phase = "question"
                        /\ r.s.current_question_idx = 0
                        /\ get_current_question(r.s) = r.s.quiz.questions[1]
            /\ ~r.ret => ~(heap[o].quiz.loaded /\ Len(heap[o].quiz.questions) >= 1)

\* C36: in every state of every session, each id of the connection map is a
\* key of the roster.
C36_ConnectionsInRoster ==
    \A o \in DOMAIN heap :
        DOMAIN heap[o].connections \subseteq DOMAIN heap[o].players

\* s1 was kicked and has joined again on its second connection: the map
\* holds the new connection of s1, and s1 is in the roster
C36_Witness ==
    \E o \in DOMAIN heap :
        /\ WasKicked(o, "s1")
        /\ Has(heap[o].connections, "s1")
        /\ heap[o].connections["s1"] = 4
        /\ Has(heap[o].players, "s1")

\* no handler attached to the session object B takes this step
NoStepOf(B) ==
    \A w \in WsIds : (conn[w].session = B \/ conn'[w].session = B) => conn'[w] = conn[w]

\* C31: a registered session B is left as it is, and registered, by every step
\* of a handler that is attached to another session object, an old object
\* whose id B has taken over included.
C31_SessionsIsolated ==
    [][\A sid \in SessionIds :
          LET B == quiz_sessions[sid]
          IN  (B # NoObj /\ NoStepOf(B)) =>
                  /\ quiz_sessions'[sid] = B
                  /\ heap'[B] = heap[B]]_vars

=============================================================================
